---- MODULE Spec2Model ----
(***************************************************************************)
(* A model of the evaluator of src/src/gepa_metrics.py: GEPAMetrics.metric *)
(* extracts candidate code from a prediction, writes it to runs/<pid>,     *)
(* runs it as a child process, looks for image.png and scores its cosine   *)
(* similarity to the reference image.                                      *)
(*                                                                         *)
(* Orchestrator.run of src/src/orchestrator.py is modelled by the variable *)
(* orch and the actions of its own section, BuildGEPADataset.build of      *)
(* src/src/build_gepa_dataset.py by the variable ds, and the script part   *)
(* of src/src/cliagent.py by the variable cli.                             *)
(*                                                                         *)
(* Text is a sequence of tokens: "PY" is the tagged fence ```python, "F"   *)
(* an untagged fence ```, "sp" and "nl" whitespace, "a" and "b" any other  *)
(* characters.  Similarities are integers in units of 1/10000 (the four    *)
(* decimals the feedback prints).  Feedback is a sequence of tagged parts. *)
(***************************************************************************)
EXTENDS Integers, Sequences, FiniteSets, TLC

VARIABLES
    threshold,   \* self.similarity_threshold, in 1/10000
    active,      \* the callers that invoke metric in this specification
    deadline,    \* the deadline (s) the callers have for a whole call; metric
                 \* has no parameter that receives it
    fs,          \* the runs/ tree: run id -> directory
    procs,       \* the live processes started by metric calls
    pc,          \* per caller: its position in metric
    example,     \* per caller: the example argument
    prediction,  \* per caller: the prediction argument
    code,        \* per caller: the extracted code
    pid,         \* per caller: the run id
    exec_result, \* per caller: the CompletedProcess of generate.py
    result,      \* per caller: what the call returned or raised
    stages,      \* per caller: the stages the call has gone through
    orch,        \* Orchestrator.run: its position, its steps and its files
    ds,          \* BuildGEPADataset.build: its table, its groups and its sets
    cli          \* cliagent.py run as a script: its arguments and its process

\* the state of GEPAMetrics, and the state of the other programs
metric_vars == <<threshold, active, deadline, fs, procs, pc, example, prediction,
                 code, pid, exec_result, result, stages>>
outside == <<orch, ds, cli>>

vars == <<metric_vars, outside>>

\* ------------------------------------------------------------------ bounds

MaxDesc == 1

\* --------------------------------------------------------------- constants

\* similarity_threshold: float = 0.6
DefaultThreshold == 6000
\* timeout_s: int = 60
TimeoutS == 60
\* the unit of similarity: 1.0
One == 10000

Callers == {"c1", "c2"}

\* ------------------------------------------------------------------- text

IsSpace(t) == t \in {"sp", "nl"}

RECURSIVE LStrip(_)
LStrip(s) ==
    IF s # <<>> /\ IsSpace(Head(s)) THEN LStrip(Tail(s)) ELSE s

RECURSIVE RStrip(_)
RStrip(s) ==
    IF s # <<>> /\ IsSpace(s[Len(s)]) THEN RStrip(SubSeq(s, 1, Len(s) - 1)) ELSE s

\* str.strip()
Strip(s) == RStrip(LStrip(s))

\* sub in s, for sub the tagged fence or the bare fence: the tagged fence
\* starts with the three backquotes of the bare one
HasTagged(s) == \E i \in DOMAIN s : s[i] = "PY"
HasFence(s) == \E i \in DOMAIN s : s[i] \in {"PY", "F"}

FirstIn(s, toks) ==
    IF \E i \in DOMAIN s : s[i] \in toks
    THEN CHOOSE i \in DOMAIN s : s[i] \in toks /\ \A j \in 1..(i - 1) : s[j] \notin toks
    ELSE Len(s) + 1

\* s.split(sep)[0]
SplitHead(s, toks) == SubSeq(s, 1, FirstIn(s, toks) - 1)

\* s.split("```python")[1], for s that holds the tagged fence
SplitSecondTagged(s) ==
    SplitHead(SubSeq(s, FirstIn(s, {"PY"}) + 1, Len(s)), {"PY"})

\* ExtractCode that takes the text before the first fence of any kind
ExtractCodeFirstFence(program_code) ==
    IF HasFence(program_code)
    THEN Strip(SplitHead(program_code, {"PY", "F"}))
    ELSE program_code

\* metric, "Extract code block"
ExtractCode(program_code) ==
    IF HasTagged(program_code)
    THEN Strip(SplitHead(SplitSecondTagged(program_code), {"PY", "F"}))
    ELSE IF HasFence(program_code)
         THEN Strip(SplitHead(program_code, {"PY", "F"}))
         ELSE program_code

\* what _write_generate_scripts writes to both files
ScriptText(c) == RStrip(c) \o <<"nl">>

\* ---------------------------------------------------------- Python values

NoneV == <<"none", "">>
PyS(s) == <<"str", s>>
PyI(n) == <<"int", n>>

Digits == <<"0", "1", "2", "3", "4", "5", "6", "7", "8", "9">>

\* str(value), for a string or a one-digit integer
PyStr(v) == IF v[1] = "int" THEN Digits[v[2] + 1] ELSE v[2]

\* value not in (None, "")
IsSet(v) == v # NoneV /\ v # PyS("")

PidKeys == <<"pid", "id", "example_id">>

\* _extract_pid that takes the last key that is set
_extract_pid_last(ex, default) ==
    IF \E i \in DOMAIN PidKeys : IsSet(ex.keys[PidKeys[i]])
    THEN LET i == CHOOSE i \in DOMAIN PidKeys :
                      /\ IsSet(ex.keys[PidKeys[i]])
                      /\ \A j \in (i + 1) .. Len(PidKeys) : ~IsSet(ex.keys[PidKeys[j]])
         IN PyStr(ex.keys[PidKeys[i]])
    ELSE default

\* _extract_pid: the first key that is set, as a string. An example holds
\* its fields in one store, so get, getattr and _store read the same value.
_extract_pid(ex, default) ==
    IF \E i \in DOMAIN PidKeys : IsSet(ex.keys[PidKeys[i]])
    THEN LET i == CHOOSE i \in DOMAIN PidKeys :
                      /\ IsSet(ex.keys[PidKeys[i]])
                      /\ \A j \in 1..(i - 1) : ~IsSet(ex.keys[PidKeys[j]])
         IN PyStr(ex.keys[PidKeys[i]])
    ELSE default

\* --------------------------------------------------------------- images

\* An image argument: form is "str" (a path or URL), "pil" (a decoded
\* image), "wrapper" (an object with a path attribute) or "other"; decodes
\* says whether load_image can decode what the path names; emb is the
\* vector the encoder gives for the decoded image.
NoEmb == <<"none">>

_get_embedding(image) ==
    LET asStr == IF image.form = "wrapper" THEN "str" ELSE image.form
        form == IF asStr = "str" /\ image.decodes THEN "pil" ELSE asStr
    IN IF form # "pil" THEN NoEmb ELSE <<"emb", image.emb>>

\* whether _get_embedding(image) calls the encoder
CallsEncoder(image) == _get_embedding(image) # NoEmb

Dot(u, v) == u[1] * v[1] + u[2] * v[2]

\* np.linalg.norm, for the vectors of the model (their norms are integers)
Norm(v) == CHOOSE n \in 0..Dot(v, v) : n * n = Dot(v, v)

\* compute_similarity: <<similarity, msg>>
compute_similarity(image1, image2) ==
    LET emb1 == _get_embedding(image1)
        emb2 == _get_embedding(image2)
    IN IF emb1 = NoEmb \/ emb2 = NoEmb
       THEN <<0, "Failed to process one or both images.">>
       ELSE LET norm1 == Norm(emb1[2])
                norm2 == Norm(emb2[2])
            IN IF norm1 = 0 \/ norm2 = 0
               THEN <<0, "Zero norm embedding encountered.">>
               ELSE <<(Dot(emb1[2], emb2[2]) * One) \div (norm1 * norm2), "Success">>

\* ------------------------------------------------------------- feedback

Lit(s) == <<"lit", s>>
Part(tag, v) == <<tag, v>>
Has(fb, tag, v) == \E i \in DOMAIN fb : fb[i][1] = tag /\ fb[i][2] = v

FbNoCode == <<Lit("No code found in the prediction.")>>

FbWriteFailed(e) ==
    <<Lit("Failed to write generate.py: "), Part("exc", e),
      Lit("\nTraceback: "), Part("traceback", e)>>

\* FbTimeout without the bound
FbTimeoutNoBound(t) ==
    <<Lit("generate.py timed out.")>>

FbTimeout(t) ==
    <<Lit("generate.py timed out after "), Part("timeout", t), Lit("s.")>>

FbRunFailed(e) ==
    <<Lit("Failed to run generate.py: "), Part("exc", e),
      Lit("\nTraceback: "), Part("traceback", e)>>

\* FbExitCode without the captured stderr
FbExitCodeNoStderr(r) ==
    <<Lit("generate.py failed.\n"),
      Lit("Return code: "), Part("returncode", r.returncode),
      Lit("\nSTDOUT:\n"), Part("stdout", r.stdout)>>

FbExitCode(r) ==
    <<Lit("generate.py failed.\n"),
      Lit("Return code: "), Part("returncode", r.returncode),
      Lit("\nSTDOUT:\n"), Part("stdout", r.stdout),
      Lit("\nSTDERR:\n"), Part("stderr", r.stderr)>>

FbNoImage(r) ==
    <<Lit("generate.py ran but did not produce runs/<pid>/image.png.\n"),
      Lit("Make sure your code saves the output image as image.png in the current working directory.\n"),
      Lit("STDOUT:\n"), Part("stdout", r.stdout),
      Lit("\nSTDERR:\n"), Part("stderr", r.stderr)>>

\* score = 1 if similarity >= self.similarity_threshold else 0
ScoreOf(similarity, thr) == IF similarity >= thr THEN 1 ELSE 0

FbScore(similarity, score, thr, msg) ==
    <<Lit("Similarity Score: "), Part("similarity", similarity)>>
    \o (IF score = 0
        THEN <<Lit("\nThreshold is "), Part("threshold", thr),
               Lit(". Evaluation failed. Reason: "), Part("msg", msg)>>
        ELSE <<Lit("\nSuccess!")>>)

\* --------------------------------------------------------------- inputs

Img(form, decodes, emb) == [form |-> form, decodes |-> decodes, emb |-> emb]

\* example: the identifier keys and the reference image (has_image is
\* FALSE for an example without an image attribute)
Example(p, i, e, has, img) ==
    [keys |-> [k \in {"pid", "id", "example_id"} |->
                  IF k = "pid" THEN p ELSE IF k = "id" THEN i ELSE e],
     has_image |-> has, image |-> img]

RefImage == Img("str", TRUE, <<1, 0>>)
BadRefImage == Img("str", FALSE, <<0, 0>>)

Examples ==
    {Example(PyI(7), NoneV, NoneV, TRUE, RefImage),
     Example(NoneV, PyS("7"), NoneV, TRUE, BadRefImage),
     Example(PyS(""), NoneV, PyI(7), FALSE, BadRefImage)}

RunIds == {"7", "8", "9", "unknown"}

\* RunDir with one directory for every run id
RunDirShared(p) == "unknown"

\* run_dir = os.path.join("runs", str(pid)): the directories of runs/ are
\* named by their run id
RunDir(p) == p

\* prediction: has_program is FALSE for a prediction without the attribute
Prediction(has, prog) == [has_program |-> has, program |-> prog]

Predictions ==
    {Prediction(FALSE, NoneV),
     Prediction(TRUE, NoneV),
     Prediction(TRUE, PyS(<<"a", "PY", "nl", "a", "nl", "F", "b">>)),
     Prediction(TRUE, PyS(<<"PY", "nl", "sp", "F">>)),
     Prediction(TRUE, PyS(<<"a", "F", "b", "F">>)),
     Prediction(TRUE, PyS(<<"b", "nl">>)),
     Prediction(TRUE, PyS(<<"sp", "nl">>))}

\* getattr(prediction, 'program', '')
ProgramOf(pred) == IF pred.has_program THEN pred.program ELSE PyS(<<>>)

\* what a candidate program can leave in image.png: an image the encoder
\* maps to a vector, or bytes that do not decode
GenImages ==
    {Img("str", TRUE, <<1, 0>>), Img("str", TRUE, <<3, 4>>),
     Img("str", TRUE, <<0, 1>>), Img("str", TRUE, <<0, 0>>),
     Img("str", FALSE, <<0, 0>>)}

\* what subprocess.run returns for a child that exited
Completed(rc, out, err) == [returncode |-> rc, stdout |-> out, stderr |-> err]

ExecResults ==
    {Completed(0, "", ""), Completed(0, "out", "err"), Completed(1, "out", "Traceback")}

NoExec == Completed(-1, "", "")

Thresholds == {0, DefaultThreshold}

\* ---------------------------------------------------------------- state

NoFile == [present |-> FALSE]
TextFile(t) == [present |-> TRUE, text |-> t]
\* an image file, with its writer: the caller whose current call started
\* the process that wrote it, or "old" for a process of an earlier call
ImageFile(img, w) == [present |-> TRUE, image |-> img, by |-> w]

\* a run directory: generate_raw.py, generate.py, image.png and the
\* metadata record of the run (metric writes none)
NoDir == [exists |-> FALSE, raw |-> NoFile, gen |-> NoFile, image |-> NoFile,
          record |-> NoFile]

NoResult == [kind |-> "none", score |-> 0, feedback |-> <<>>, exc |-> "",
             scored |-> NoFile]
Returned(score, fb, scored) ==
    [kind |-> "returned", score |-> score, feedback |-> fb, exc |-> "",
     scored |-> scored]
Raised(e) ==
    [kind |-> "raised", score |-> 0, feedback |-> <<>>, exc |-> e,
     scored |-> NoFile]

\* a process, with the caller whose current call started it ("old": an
\* earlier call did) and its working directory
run_dir(c) == RunDir(pid[c])

\* the child reads generate.py when it starts: script is what it executes
Child(c) == [call |-> c, dir |-> run_dir(c), kind |-> "child",
             script |-> fs[run_dir(c)].gen]
Desc(c) == [call |-> c, dir |-> run_dir(c), kind |-> "desc", script |-> NoFile]

\* the live child of the current call of c
ChildrenOf(c) == {p \in procs : p.call = c /\ p.kind = "child"}

\* a new call of caller c begins: what its previous call left behind is
\* from now on the work of an earlier call
AgedFile(c, f) == IF f.present /\ f.by = c THEN [f EXCEPT !.by = "old"] ELSE f
AgedFs(c) == [r \in RunIds |-> [fs[r] EXCEPT !.image = AgedFile(c, @)]]
AgedProcs(c) == {IF p.call = c THEN [p EXCEPT !.call = "old"] ELSE p : p \in procs}

\* no deadline: the caller waits for as long as the call takes
NoDeadline == 0

\* no text: the prompt before the arguments are read, the input of a
\* provider that was not started
NoText == <<"none">>

\* python cliagent.py before it starts
CliIdle ==
    [pc |-> "idle", file |-> NoFile, read |-> NoText, prompt |-> NoText,
     provider |-> "codex", model |-> "", on_path |-> FALSE,
     argv |-> <<>>, stdin |-> NoText, spawned |-> FALSE, exit_code |-> -1]

\* BuildGEPADataset(...) before build
DsIdle ==
    [pc |-> "idle", table |-> <<>>, max_train |-> 0, max_val |-> 0,
     groups |-> <<>>, next |-> 1, train |-> <<>>, val |-> <<>>, saved |-> FALSE]

\* Orchestrator(...) before run: no step taken; generate.py, prompt.md and
\* metadata.json of runs/<pid> are absent
OrchIdle ==
    [pc |-> "idle", steps |-> <<>>, python |-> TRUE,
     generate |-> "absent", prompt |-> "absent", metadata |-> "absent"]

\* the evaluator after construction, over the run directories an earlier
\* process may have left behind
InitFrom(callers, thresholds, deadlines, filesystems) ==
    /\ threshold \in thresholds
    /\ active = callers
    /\ deadline \in deadlines
    /\ fs \in filesystems
    /\ procs = {}
    /\ pc = [c \in Callers |-> "idle"]
    /\ example = [c \in Callers |-> Example(NoneV, NoneV, NoneV, FALSE, BadRefImage)]
    /\ prediction = [c \in Callers |-> Prediction(FALSE, NoneV)]
    /\ code = [c \in Callers |-> <<>>]
    /\ pid = [c \in Callers |-> "unknown"]
    /\ exec_result = [c \in Callers |-> NoExec]
    /\ result = [c \in Callers |-> NoResult]
    /\ stages = [c \in Callers |-> <<>>]
    /\ orch = OrchIdle
    /\ ds = DsIdle
    /\ cli = CliIdle

InitOf(callers, thresholds, deadlines) ==
    InitFrom(callers, thresholds, deadlines, {[r \in RunIds |-> NoDir]})

InitWith(callers) == InitOf(callers, Thresholds, {NoDeadline})

\* GEPAMetrics(...): one evaluator, metric called by one caller at a time
Init == InitWith({"c1"})

\* the call ends: return or raise
Finish(c, res) ==
    /\ pc' = [pc EXCEPT ![c] = IF res.kind = "raised" THEN "raised" ELSE "returned"]
    /\ result' = [result EXCEPT ![c] = res]

Stage(c, name) == stages' = [stages EXCEPT ![c] = Append(@, name)]

\* a stage that ends in an I/O error
StageOf(c, name, ok) ==
    stages' = [stages EXCEPT ![c] = IF ok THEN Append(@, name)
                                       ELSE @ \o <<name, "io_error">>]

\* -------------------------------------------------------------- actions

\* metric is entered: the code block is extracted; without code the call
\* returns at once, and a program that is no string raises in the "in" test
Call(c, ex, pred) ==
    /\ c \in active
    /\ pc[c] \in {"idle", "returned", "raised"}
    /\ fs' = AgedFs(c)
    /\ procs' = AgedProcs(c)
    /\ example' = [example EXCEPT ![c] = ex]
    /\ prediction' = [prediction EXCEPT ![c] = pred]
    /\ exec_result' = [exec_result EXCEPT ![c] = NoExec]
    /\ LET program_code == ProgramOf(pred)
       IN IF program_code[1] # "str"
          THEN /\ Finish(c, Raised("TypeError"))
               /\ stages' = [stages EXCEPT ![c] = <<>>]
               /\ UNCHANGED <<code, pid>>
          ELSE /\ code' = [code EXCEPT ![c] = ExtractCode(program_code[2])]
               /\ stages' = [stages EXCEPT ![c] = <<"extract">>]
               /\ IF code'[c] = <<>>
                  THEN /\ Finish(c, Returned(0, FbNoCode, NoFile))
                       /\ UNCHANGED pid
                  ELSE /\ pid' = [pid EXCEPT ![c] = _extract_pid(ex, "unknown")]
                       /\ pc' = [pc EXCEPT ![c] = "mkdir"]
                       /\ result' = [result EXCEPT ![c] = NoResult]
    /\ UNCHANGED <<outside, threshold, active, deadline>>

\* os.makedirs(run_dir, exist_ok=True), outside any try: an OSError (the
\* directory cannot be created) leaves metric
MakeRunDir(c, ok) ==
    /\ pc[c] = "mkdir"
    /\ ok \/ ~fs[run_dir(c)].exists
    /\ IF ok
       THEN /\ fs' = [fs EXCEPT ![run_dir(c)].exists = TRUE]
            /\ pc' = [pc EXCEPT ![c] = "write"]
            /\ UNCHANGED result
       ELSE /\ Finish(c, Raised("OSError"))
            /\ UNCHANGED fs
    /\ StageOf(c, "mkdir", ok)
    /\ UNCHANGED <<outside, threshold, active, deadline, procs, example, prediction,
                   code, pid, exec_result>>

\* WriteScripts that writes generate.py only
WriteScriptsNoRaw(c, outcome) ==
    /\ pc[c] = "write"
    /\ outcome \in {"ok", "raw_fails", "generate_fails"}
    /\ fs' = [fs EXCEPT ![run_dir(c)].gen =
                            IF outcome = "ok" THEN TextFile(ScriptText(code[c])) ELSE @]
    /\ IF outcome = "ok"
       THEN /\ pc' = [pc EXCEPT ![c] = "spawn"]
            /\ UNCHANGED result
       ELSE Finish(c, Returned(0, FbWriteFailed("OSError"), NoFile))
    /\ StageOf(c, "write", outcome = "ok")
    /\ UNCHANGED <<outside, threshold, active, deadline, procs, example, prediction,
                   code, pid, exec_result>>

\* WriteScripts that goes on to the spawn after a failed write
WriteScriptsContinues(c, outcome) ==
    /\ pc[c] = "write"
    /\ outcome \in {"ok", "raw_fails", "generate_fails"}
    /\ fs' = [fs EXCEPT ![run_dir(c)].raw =
                            IF outcome = "raw_fails" THEN @ ELSE TextFile(ScriptText(code[c])),
                        ![run_dir(c)].gen =
                            IF outcome = "ok" THEN TextFile(ScriptText(code[c])) ELSE @]
    /\ pc' = [pc EXCEPT ![c] = "spawn"]
    /\ UNCHANGED result
    /\ StageOf(c, "write", outcome = "ok")
    /\ UNCHANGED <<outside, threshold, active, deadline, procs, example, prediction,
                   code, pid, exec_result>>

\* _write_generate_scripts under metric's try: generate_raw.py, then
\* generate.py; the write of either file may fail
WriteScripts(c, outcome) ==
    /\ pc[c] = "write"
    /\ outcome \in {"ok", "raw_fails", "generate_fails"}
    /\ fs' = [fs EXCEPT ![run_dir(c)].raw =
                            IF outcome = "raw_fails" THEN @ ELSE TextFile(ScriptText(code[c])),
                        ![run_dir(c)].gen =
                            IF outcome = "ok" THEN TextFile(ScriptText(code[c])) ELSE @]
    /\ IF outcome = "ok"
       THEN /\ pc' = [pc EXCEPT ![c] = "spawn"]
            /\ UNCHANGED result
       ELSE Finish(c, Returned(0, FbWriteFailed("OSError"), NoFile))
    /\ StageOf(c, "write", outcome = "ok")
    /\ UNCHANGED <<outside, threshold, active, deadline, procs, example, prediction,
                   code, pid, exec_result>>

\* _run_generate_script: subprocess.run starts python generate.py in the
\* run directory; a spawn that fails is caught by metric
Spawn(c, ok) ==
    /\ pc[c] = "spawn"
    /\ IF ok
       THEN /\ procs' = procs \cup {Child(c)}
            /\ pc' = [pc EXCEPT ![c] = "running"]
            /\ UNCHANGED result
       ELSE /\ Finish(c, Returned(0, FbRunFailed("OSError"), NoFile))
            /\ UNCHANGED procs
    /\ StageOf(c, "spawn", ok)
    /\ UNCHANGED <<outside, threshold, active, deadline, fs, example, prediction,
                   code, pid, exec_result>>

\* the candidate program, or a process it started, saves image.png in its
\* working directory
ProcWritesImage(p, img) ==
    /\ p \in procs
    /\ fs' = [fs EXCEPT ![p.dir].image = ImageFile(img, p.call)]
    /\ UNCHANGED <<outside, threshold, active, deadline, procs, pc, example, prediction,
                   code, pid, exec_result, result, stages>>

\* the candidate program starts a process of its own
ChildForks(c) ==
    /\ pc[c] = "running"
    /\ ChildrenOf(c) # {}
    /\ Cardinality({p \in procs : p.kind = "desc"}) < MaxDesc
    /\ procs' = procs \cup {Desc(c)}
    /\ UNCHANGED <<outside, threshold, active, deadline, fs, pc, example, prediction,
                   code, pid, exec_result, result, stages>>

\* a process started by a candidate program ends by itself
DescExits(p) ==
    /\ p \in procs
    /\ p.kind = "desc"
    /\ procs' = procs \ {p}
    /\ UNCHANGED <<outside, threshold, active, deadline, fs, pc, example, prediction,
                   code, pid, exec_result, result, stages>>

\* the child exits within the timeout: subprocess.run returns its
\* CompletedProcess
ChildExits(c, r) ==
    /\ pc[c] = "running"
    /\ procs' = procs \ ChildrenOf(c)
    /\ exec_result' = [exec_result EXCEPT ![c] = r]
    /\ pc' = [pc EXCEPT ![c] = "check"]
    /\ UNCHANGED <<outside, threshold, active, deadline, fs, example, prediction,
                   code, pid, result, stages>>

\* the processes subprocess.run kills when the timeout expires: the child
\* it started (Popen.kill), not the processes the child started
KilledOnTimeout(c) == ChildrenOf(c)

\* the child runs past timeout_s: subprocess.run kills it and raises
\* TimeoutExpired, which metric turns into a result
TimeoutExpired(c) ==
    /\ pc[c] = "running"
    /\ procs' = procs \ KilledOnTimeout(c)
    /\ Finish(c, Returned(0, FbTimeout(TimeoutS), NoFile))
    /\ Stage(c, "timed_out")
    /\ UNCHANGED <<outside, threshold, active, deadline, fs, example, prediction,
                   code, pid, exec_result>>

\* CheckResult without the test that image.png exists
CheckResultNoLookup(c) ==
    /\ pc[c] = "check"
    /\ IF exec_result[c].returncode # 0
       THEN /\ Finish(c, Returned(0, FbExitCode(exec_result[c]), NoFile))
            /\ UNCHANGED stages
       ELSE /\ Stage(c, "lookup")
            /\ pc' = [pc EXCEPT ![c] = "score"]
            /\ UNCHANGED result
    /\ UNCHANGED <<outside, threshold, active, deadline, fs, procs, example, prediction,
                   code, pid, exec_result>>

\* metric after the run: the return code, then os.path.exists(image.png)
CheckResult(c) ==
    /\ pc[c] = "check"
    /\ IF exec_result[c].returncode # 0
       THEN /\ Finish(c, Returned(0, FbExitCode(exec_result[c]), NoFile))
            /\ UNCHANGED stages
       ELSE /\ Stage(c, "lookup")
            /\ IF ~fs[run_dir(c)].image.present
               THEN Finish(c, Returned(0, FbNoImage(exec_result[c]), NoFile))
               ELSE /\ pc' = [pc EXCEPT ![c] = "score"]
                    /\ UNCHANGED result
    /\ UNCHANGED <<outside, threshold, active, deadline, fs, procs, example, prediction,
                   code, pid, exec_result>>

\* the image argument that the path runs/<pid>/image.png stands for
PathImage(file) == IF file.present THEN file.image ELSE Img("str", FALSE, <<0, 0>>)

\* the result of the scoring lines of metric
Scored(similarity, msg, thr, file) ==
    Returned(ScoreOf(similarity, thr),
             FbScore(similarity, ScoreOf(similarity, thr), thr, msg), file)

\* compute_similarity(example.image, generated_image_path) and the score;
\* an example without image, or an encoder call that fails, raises
Score(c, encoder_ok) ==
    /\ pc[c] = "score"
    /\ LET file == fs[run_dir(c)].image
           generated == PathImage(file)
       IN IF ~example[c].has_image
          THEN /\ Finish(c, Raised("AttributeError"))
               /\ UNCHANGED stages
          ELSE /\ Stage(c, "similarity")
               /\ encoder_ok \/ CallsEncoder(example[c].image) \/ CallsEncoder(generated)
               /\ IF ~encoder_ok
                  THEN Finish(c, Raised("RuntimeError"))
                  ELSE LET sm == compute_similarity(example[c].image, generated)
                       IN Finish(c, Scored(sm[1], sm[2], threshold, file))
    /\ UNCHANGED <<outside, threshold, active, deadline, fs, procs, example, prediction,
                   code, pid, exec_result>>

Next ==
    \/ \E c \in Callers, ex \in Examples, pred \in Predictions : Call(c, ex, pred)
    \/ \E c \in Callers, ok \in BOOLEAN : MakeRunDir(c, ok)
    \/ \E c \in Callers, o \in {"ok", "raw_fails", "generate_fails"} : WriteScripts(c, o)
    \/ \E c \in Callers, ok \in BOOLEAN : Spawn(c, ok)
    \/ \E p \in procs, img \in GenImages : ProcWritesImage(p, img)
    \/ \E c \in Callers : ChildForks(c)
    \/ \E p \in procs : DescExits(p)
    \/ \E c \in Callers, r \in ExecResults : ChildExits(c, r)
    \/ \E c \in Callers : TimeoutExpired(c)
    \/ \E c \in Callers : CheckResult(c)
    \/ \E c \in Callers, ok \in BOOLEAN : Score(c, ok)

Spec == Init /\ [][Next]_vars

\* ------------------------------------------------------ claims C1 to C10

Went(c, name) == \E i \in DOMAIN stages[c] : stages[c][i] = name

\* the call of c has returned from the scoring lines
HasScored(c) == pc[c] = "returned" /\ Went(c, "similarity")

\* the similarity is defined: both embeddings computed, both norms non-zero
Defined(image1, image2) ==
    /\ _get_embedding(image1) # NoEmb
    /\ _get_embedding(image2) # NoEmb
    /\ Norm(_get_embedding(image1)[2]) # 0
    /\ Norm(_get_embedding(image2)[2]) # 0

\* the cosine of two images whose similarity is defined
Cosine(image1, image2) ==
    (Dot(image1.emb, image2.emb) * One) \div (Norm(image1.emb) * Norm(image2.emb))

ScoredPair(c) == <<example[c].image, PathImage(result[c].scored)>>

\* C1: metric never raises: every call that has ended has returned one
\* result with a score and a feedback text.
C1_NeverRaises ==
    \A c \in Callers :
        /\ pc[c] # "raised"
        /\ result[c].kind # "raised"

\* C2: a scored call has score 1 if and only if the similarity is defined
\* and at least the threshold; an undefined similarity gives score 0.
C2_PassIffDefinedAndAbove ==
    \A c \in Callers :
        HasScored(c) =>
            LET p == ScoredPair(c)
            IN result[c].score = 1 <=>
                   (Defined(p[1], p[2]) /\ Cosine(p[1], p[2]) >= threshold)

\* C3: the image a call scores was written by a process of that same call,
\* never one left in the run directory by an earlier call.
C3_ScoresOwnImage ==
    \A c \in Callers :
        (HasScored(c) /\ result[c].scored.present) => result[c].scored.by = c

\* C4: when the extracted text is empty or only whitespace, the call
\* returns score 0 with the "no code found" feedback and goes through no
\* other stage: nothing is written and no process is spawned.
C4_BlankCodeIsNoCode ==
    \A c \in Callers :
        (Went(c, "extract") /\ Strip(code[c]) = <<>>) =>
            /\ pc[c] = "returned"
            /\ result[c] = Returned(0, FbNoCode, NoFile)
            /\ stages[c] = <<"extract">>

\* C5: when a call has returned after a timeout, no process started by
\* that call is still running.
C5_NoProcessSurvivesTimeout ==
    \A c \in Callers :
        (pc[c] = "returned" /\ Went(c, "timed_out")) =>
            ~\E p \in procs : p.call = c

\* C6: when the run of generate.py exceeds the timeout, the call returns
\* score 0, its feedback states the timeout bound, and neither the lookup
\* of image.png nor the similarity computation takes place.
C6_TimeoutIsReported ==
    \A c \in Callers :
        Went(c, "timed_out") =>
            /\ pc[c] = "returned"
            /\ result[c].score = 0
            /\ Has(result[c].feedback, "timeout", TimeoutS)
            /\ ~Went(c, "lookup")
            /\ ~Went(c, "similarity")
            /\ result[c].scored = NoFile

C6_Witness ==
    \E c \in Callers :
        /\ pc[c] = "returned"
        /\ Went(c, "timed_out")
        /\ fs[run_dir(c)].image.present

\* the call of c is past the check of the return code of a child that
\* exited with a non-zero code
ExitedNonZero(c) ==
    /\ exec_result[c] \in ExecResults
    /\ exec_result[c].returncode # 0
    /\ pc[c] # "check"

\* C7: when generate.py exits with a non-zero code, the call returns score
\* 0, the feedback holds the exit code, the captured stdout and the
\* captured stderr as they are, and image.png is not looked up or scored.
C7_ExitCodeIsReported ==
    \A c \in Callers :
        ExitedNonZero(c) =>
            /\ pc[c] = "returned"
            /\ result[c].score = 0
            /\ Has(result[c].feedback, "returncode", exec_result[c].returncode)
            /\ Has(result[c].feedback, "stdout", exec_result[c].stdout)
            /\ Has(result[c].feedback, "stderr", exec_result[c].stderr)
            /\ ~Went(c, "lookup")
            /\ ~Went(c, "similarity")
            /\ result[c].scored = NoFile

C7_Witness ==
    \E c \in Callers :
        /\ ExitedNonZero(c)
        /\ exec_result[c].stderr = "Traceback"
        /\ fs[run_dir(c)].image.present

\* the step of c from the check of a child that exited with code 0
ChecksExitZero(c) ==
    /\ pc[c] = "check"
    /\ pc'[c] # "check"
    /\ exec_result[c].returncode = 0

\* C8: after a run that exits 0 the call goes on to the similarity scoring
\* if and only if image.png exists in the run directory; otherwise it
\* returns (it does not raise) score 0 with the feedback that names
\* image.png and its place and holds stdout and stderr.
C8_ScoresIffImageExists ==
    [][\A c \in Callers :
           ChecksExitZero(c) =>
               /\ pc'[c] = "score" <=> fs[run_dir(c)].image.present
               /\ ~fs[run_dir(c)].image.present =>
                      /\ pc'[c] = "returned"
                      /\ result'[c].score = 0
                      /\ Has(result'[c].feedback, "lit",
                             "generate.py ran but did not produce runs/<pid>/image.png.\n")
                      /\ Has(result'[c].feedback, "stdout", exec_result[c].stdout)
                      /\ Has(result'[c].feedback, "stderr", exec_result[c].stderr)]_vars

C8_Witness ==
    \E c \in Callers :
        /\ pc[c] = "returned"
        /\ exec_result[c] = Completed(0, "out", "err")
        /\ result[c].feedback = FbNoImage(exec_result[c])
        /\ ~fs[run_dir(c)].image.present

\* C9: the similarity value that compute_similarity gives for an undefined
\* similarity differs from 0.0, the value of a defined similarity of a
\* dissimilar pair.
C9_UndefinedIsNotZero ==
    \A c \in Callers :
        (HasScored(c) /\ ~Defined(ScoredPair(c)[1], ScoredPair(c)[2])) =>
            ~Has(result[c].feedback, "similarity", 0)

\* C10: when image.png is found and the similarity is defined, the
\* feedback holds the similarity, the threshold and a success or failure
\* marker, whether the call passes or fails.
C10_FeedbackHoldsThreshold ==
    \A c \in Callers :
        (HasScored(c) /\ Defined(ScoredPair(c)[1], ScoredPair(c)[2])) =>
            /\ Has(result[c].feedback, "similarity",
                   Cosine(ScoredPair(c)[1], ScoredPair(c)[2]))
            /\ Has(result[c].feedback, "threshold", threshold)
            /\ \/ Has(result[c].feedback, "lit", "\nSuccess!")
               \/ Has(result[c].feedback, "lit", ". Evaluation failed. Reason: ")

\* ----------------------------------------------------- claims C11 to C20

\* C11: once a call has come to spawn the process, generate_raw.py and
\* generate.py hold the code of that call in the run directory, and they
\* stay there whatever the outcome of the call.
C11_ScriptsBeforeSpawn ==
    \A c \in Callers :
        Went(c, "spawn") =>
            /\ fs[run_dir(c)].raw = TextFile(ScriptText(code[c]))
            /\ fs[run_dir(c)].gen = TextFile(ScriptText(code[c]))

C11_Witness ==
    \E c \in Callers :
        /\ pc[c] = "raised"
        /\ Went(c, "similarity")
        /\ fs[run_dir(c)].raw = TextFile(<<"b", "nl">>)
        /\ fs[run_dir(c)].gen = TextFile(<<"b", "nl">>)

\* the record of a result in the run directory
RecordOf(res) == [present |-> TRUE, score |-> res.score, feedback |-> res.feedback]

\* C12: when a call that has a run directory returns, its result (score,
\* feedback, similarity) is the record written in that directory.
C12_ResultIsPersisted ==
    \A c \in Callers :
        (pc[c] = "returned" /\ Went(c, "mkdir")) =>
            fs[run_dir(c)].record = RecordOf(result[c])

\* C13: a failure to create the run directory, to write the source files
\* or to spawn the process ends the call with a returned result of score
\* 0 whose feedback holds the error; it never leaves metric as an
\* exception.
C13_IoErrorIsReturned ==
    \A c \in Callers :
        Went(c, "io_error") =>
            /\ pc[c] = "returned"
            /\ result[c].score = 0
            /\ Has(result[c].feedback, "exc", "OSError")

\* ------------------------------------------------- concurrent callers

\* two callers call metric at the same time with candidates that write
\* one of two images, exit with 0 or 1 or run into the timeout, and start
\* no process of their own
ConcPredictions ==
    {Prediction(TRUE, PyS(<<"PY", "nl", "a", "nl", "F">>)),
     Prediction(TRUE, PyS(<<"b", "nl">>))}

ConcImages == {Img("str", TRUE, <<1, 0>>), Img("str", TRUE, <<0, 1>>)}

ConcExecResults == {Completed(0, "", ""), Completed(1, "out", "Traceback")}

\* the step of two concurrent callers, caller c calling with ex[c]
ConcNext(ex) ==
    \/ \E c \in Callers, pred \in ConcPredictions : Call(c, ex[c], pred)
    \/ \E c \in Callers : MakeRunDir(c, TRUE)
    \/ \E c \in Callers : WriteScripts(c, "ok")
    \/ \E c \in Callers : Spawn(c, TRUE)
    \/ \E p \in procs, img \in ConcImages : ProcWritesImage(p, img)
    \/ \E c \in Callers, r \in ConcExecResults : ChildExits(c, r)
    \/ \E c \in Callers : TimeoutExpired(c)
    \/ \E c \in Callers : CheckResult(c)
    \/ \E c \in Callers : Score(c, TRUE)

InitConc == InitOf(Callers, {DefaultThreshold}, {NoDeadline})

\* the callers evaluate examples of distinct run ids: 7 and unknown
DistinctExample ==
    [c \in Callers |->
        IF c = "c1" THEN Example(PyI(7), NoneV, NoneV, TRUE, RefImage)
        ELSE Example(NoneV, NoneV, NoneV, TRUE, RefImage)]

NextDistinct == ConcNext(DistinctExample)

SpecDistinct == InitConc /\ [][NextDistinct]_vars

\* the callers evaluate two examples that carry no identifier: both run
\* ids are unknown
SameIdExample ==
    [c \in Callers |->
        IF c = "c1" THEN Example(NoneV, NoneV, NoneV, TRUE, RefImage)
        ELSE Example(NoneV, PyS(""), NoneV, TRUE, RefImage)]

NextSameId == ConcNext(SameIdExample)

SpecSameId == InitConc /\ [][NextSameId]_vars

InProgress(c) == pc[c] \in {"mkdir", "write", "spawn", "running", "check", "score"}

\* the child of c executes the code of c, and the image c scored was not
\* written by a process of another caller
OwnScriptAndImage(c) ==
    /\ \A p \in ChildrenOf(c) : p.script = TextFile(ScriptText(code[c]))
    /\ \A d \in Callers \ {c} :
           result[c].scored.present => result[c].scored.by # d

\* C14: concurrent calls for distinct run ids work in distinct
\* directories, each call executes its own generate.py, and each scores
\* an image.png written in its own directory by its own processes.
C14_DistinctIdsAreIsolated ==
    \A c \in Callers :
        /\ OwnScriptAndImage(c)
        /\ \A p \in ChildrenOf(c) : p.dir = run_dir(c)
        /\ Went(c, "spawn") => fs[run_dir(c)].gen = TextFile(ScriptText(code[c]))
        /\ \A d \in Callers \ {c} :
               (InProgress(c) /\ InProgress(d)) => run_dir(c) # run_dir(d)
        /\ (Went(c, "mkdir") /\ fs[run_dir(c)].image.present) =>
               fs[run_dir(c)].image.by \in {c, "old"}

C14_Witness ==
    /\ ChildrenOf("c1") # {}
    /\ ChildrenOf("c2") # {}
    /\ code["c1"] # code["c2"]
    /\ fs[run_dir("c1")].image.present
    /\ fs[run_dir("c2")].image.present

\* C15: no evaluation executes a generate.py or scores an image.png that
\* another concurrent evaluation of the same run id wrote.
C15_NoForeignScriptOrImage ==
    \A c \in Callers : OwnScriptAndImage(c)

Pipeline == <<"extract", "mkdir", "write", "spawn", "lookup", "similarity">>

Markers == {"io_error", "timed_out"}

IsPrefix(s, t) == Len(s) <= Len(t) /\ \A i \in DOMAIN s : s[i] = t[i]

\* the stages of a call without the failure markers
Core(s) == SelectSeq(s, LAMBDA x : x \notin Markers)

Done(c) == pc[c] \in {"returned", "raised"}

\* the stages a finished call went through, by the failure it reports
EarlyExit(c) ==
    LET fb == result[c].feedback
    IN /\ fb = FbNoCode => stages[c] = <<"extract">>
       /\ fb = FbWriteFailed("OSError") =>
              stages[c] = <<"extract", "mkdir", "write", "io_error">>
       /\ fb = FbRunFailed("OSError") =>
              stages[c] = <<"extract", "mkdir", "write", "spawn", "io_error">>
       /\ fb = FbTimeout(TimeoutS) =>
              stages[c] = <<"extract", "mkdir", "write", "spawn", "timed_out">>
       /\ fb = FbExitCode(exec_result[c]) =>
              stages[c] = <<"extract", "mkdir", "write", "spawn">>
       /\ fb = FbNoImage(exec_result[c]) =>
              stages[c] = <<"extract", "mkdir", "write", "spawn", "lookup">>

\* C16: the stages of a call are a prefix of extract, write, execute,
\* locate, score in this order; a failed stage is the last stage of its
\* call, and a call that is at a stage has been through the stages before
\* it, whose output is all it reads.
C16_StrictPipeline ==
    \A c \in Callers :
        /\ IsPrefix(Core(stages[c]), Pipeline)
        /\ \A i \in DOMAIN stages[c] :
               stages[c][i] \in Markers => (i = Len(stages[c]) /\ Done(c))
        /\ (pc[c] = "returned") => EarlyExit(c)
        /\ pc[c] = "write" => stages[c] = <<"extract", "mkdir">>
        /\ pc[c] \in {"spawn"} => stages[c] = <<"extract", "mkdir", "write">>
        /\ pc[c] \in {"running", "check"} =>
               stages[c] = <<"extract", "mkdir", "write", "spawn">>
        /\ pc[c] = "score" => stages[c] = <<"extract", "mkdir", "write", "spawn", "lookup">>
        /\ Went(c, "similarity") => (Done(c) /\ stages[c] = Pipeline)

C16_Witness ==
    \E c \in Callers :
        /\ pc[c] = "returned"
        /\ stages[c] = <<"extract", "mkdir", "write", "spawn", "lookup">>
        /\ code[c] # <<>>

\* --------------------------------------------- the same call, twice

\* what the run directory of run 7 may hold before the first call
StaleImage == ImageFile(Img("str", TRUE, <<0, 1>>), "old")

PriorDirs ==
    {NoDir,
     [NoDir EXCEPT !.exists = TRUE],
     [NoDir EXCEPT !.exists = TRUE, !.image = StaleImage],
     [NoDir EXCEPT !.exists = TRUE, !.image = StaleImage,
                   !.raw = TextFile(<<"a", "nl">>), !.gen = TextFile(<<"a", "nl">>)]}

InitTwice ==
    InitFrom(Callers, Thresholds, {NoDeadline},
             {[r \in RunIds |-> IF r = "7" THEN d ELSE NoDir] : d \in PriorDirs})

TwiceExample == Example(PyI(7), NoneV, NoneV, TRUE, RefImage)

\* candidate a saves its figure as image.png; candidate b creates
\* image.png exclusively (open(..., "xb")) and saves its figure into it;
\* the third response holds no code
TwicePredictions ==
    {Prediction(TRUE, PyS(<<"PY", "nl", "a", "nl", "F">>)),
     Prediction(TRUE, PyS(<<"PY", "nl", "b", "nl", "F">>)),
     Prediction(TRUE, PyS(<<"sp", "nl">>))}

FigureImage == Img("str", TRUE, <<1, 0>>)

\* the step of the child of c, a function of the script it runs and of
\* the files in its working directory
DetChildStep(c) ==
    \E p \in ChildrenOf(c) :
        LET here == fs[p.dir].image
            wrote == here.present /\ here.by = c
        IN IF wrote
           THEN ChildExits(c, Completed(0, "", ""))
           ELSE IF p.script = TextFile(<<"b", "nl">>) /\ here.present
                THEN ChildExits(c, Completed(1, "", "FileExistsError"))
                ELSE ProcWritesImage(p, FigureImage)

\* c1 makes the first call, c2 the second one with the same arguments
\* when the first has returned
NextTwice ==
    \/ \E pred \in TwicePredictions :
           /\ pc["c1"] = "idle"
           /\ Call("c1", TwiceExample, pred)
    \/ /\ Done("c1")
       /\ pc["c2"] = "idle"
       /\ Call("c2", example["c1"], prediction["c1"])
    \/ \E c \in Callers : MakeRunDir(c, TRUE)
    \/ \E c \in Callers : WriteScripts(c, "ok")
    \/ \E c \in Callers : Spawn(c, TRUE)
    \/ \E c \in Callers : DetChildStep(c)
    \/ \E c \in Callers : CheckResult(c)
    \/ \E c \in Callers : Score(c, TRUE)

SpecTwice == InitTwice /\ [][NextTwice]_vars

\* C17: the second of two calls in a row with the same example and the
\* same response returns the score and the feedback of the first.
C17_SameResultTwice ==
    (Done("c1") /\ Done("c2")) =>
        /\ pc["c1"] = pc["c2"]
        /\ result["c1"].score = result["c2"].score
        /\ result["c1"].feedback = result["c2"].feedback

\* the same for the candidates whose behaviour does not depend on the
\* files of their working directory
C17_SameResultTwiceIfBlind ==
    code["c1"] # <<"b">> => C17_SameResultTwice

\* ------------------------------------------------ the caller's deadline

\* the time in seconds the caller gives the whole evaluation: shorter and
\* longer than timeout_s
Deadlines == {TimeoutS \div 2, 2 * TimeoutS}

InitDeadline == InitOf({"c1"}, {DefaultThreshold}, Deadlines)

SpecDeadline == InitDeadline /\ [][Next]_vars

Min(a, b) == IF a <= b THEN a ELSE b

\* C18: the timeout after which the spawned process is stopped is the
\* smaller one of the caller's deadline and timeout_s.
C18_DeadlineGovernsTimeout ==
    \A c \in Callers :
        Went(c, "timed_out") =>
            Has(result[c].feedback, "timeout", Min(deadline, TimeoutS))

\* ------------------------------------------------- invalid thresholds

\* a cosine similarity lies between -1 and 1
ValidThreshold(thr) == thr \in (0 - One) .. One

\* GEPAMetrics(similarity_threshold=1.5) and GEPAMetrics(similarity_threshold=-1.5)
InvalidThresholds == {One + One \div 2, 0 - (One + One \div 2)}

InitInvalid == InitOf({"c1"}, InvalidThresholds, {NoDeadline})

SpecInvalid == InitInvalid /\ [][Next]_vars

\* C19: an evaluator with an invalid threshold returns no score computed
\* with that threshold.
C19_InvalidThresholdIsRejected ==
    \A c \in Callers :
        ~ValidThreshold(threshold) => ~HasScored(c)

\* ------------------------------------------------- the response texts

MaxText == 4

Tokens == {"PY", "F", "sp", "nl", "a"}

\* every response text of at most MaxText tokens
Texts == UNION {[1 .. k -> Tokens] : k \in 0 .. MaxText}

\* the first call of metric, on every response text; the call ends when
\* the run directory or generate_raw.py cannot be written
NextExtract ==
    \/ \E t \in Texts :
           /\ pc["c1"] = "idle"
           /\ Call("c1", TwiceExample, Prediction(TRUE, PyS(t)))
    \/ \E ok \in BOOLEAN : MakeRunDir("c1", ok)
    \/ WriteScripts("c1", "raw_fails")

InitExtract == InitOf({"c1"}, {DefaultThreshold}, {NoDeadline})

SpecExtract == InitExtract /\ [][NextExtract]_vars

\* the positions of the first tagged fence of s and of the first fence
\* after it
Opening(s) == CHOOSE i \in DOMAIN s : s[i] = "PY" /\ \A j \in 1 .. (i - 1) : s[j] # "PY"
IsClosing(s, j) == j > Opening(s) /\ s[j] \in {"F", "PY"}
Closing(s) ==
    CHOOSE j \in DOMAIN s :
        IsClosing(s, j) /\ \A k \in 1 .. (j - 1) : ~IsClosing(s, k)

\* s holds a tagged fence and a fence after it
HasBlock(s) ==
    /\ \E i \in DOMAIN s : s[i] = "PY"
    /\ \E j \in DOMAIN s : IsClosing(s, j)

\* s from its first to its last token that is no whitespace
Trimmed(s) ==
    LET ink == {i \in DOMAIN s : ~IsSpace(s[i])}
    IN IF ink = {} THEN <<>>
       ELSE SubSeq(s, CHOOSE i \in ink : \A j \in ink : i <= j,
                      CHOOSE i \in ink : \A j \in ink : i >= j)

TextOf(c) == prediction[c].program[2]

\* C20: for a response with a tagged opening fence and a closing fence
\* after it, the extracted code is the text between the first tagged fence
\* and the first fence after it, without its leading and trailing
\* whitespace.
C20_TaggedBlockIsExtracted ==
    \A c \in Callers :
        (pc[c] # "idle" /\ HasBlock(TextOf(c))) =>
            code[c] = Trimmed(SubSeq(TextOf(c), Opening(TextOf(c)) + 1,
                                     Closing(TextOf(c)) - 1))

C20_Witness ==
    \E c \in Callers :
        /\ pc[c] # "idle"
        /\ TextOf(c) = <<"F", "PY", "a", "F">>
        /\ code[c] = <<"a">>

\* ----------------------------------------------- claims C21 to C28

\* the positions of the first and the second bare fence of s
FirstFence(s) == CHOOSE i \in DOMAIN s : s[i] = "F" /\ \A j \in 1 .. (i - 1) : s[j] # "F"
SecondFence(s) ==
    CHOOSE j \in DOMAIN s :
        /\ j > FirstFence(s) /\ s[j] = "F"
        /\ \A k \in (FirstFence(s) + 1) .. (j - 1) : s[k] # "F"

\* s holds no tagged fence and a block between two bare fences
HasUntaggedBlock(s) ==
    /\ \A i \in DOMAIN s : s[i] # "PY"
    /\ \E i, j \in DOMAIN s : i < j /\ s[i] = "F" /\ s[j] = "F"

\* C21: for a response with a block between bare fences and no tagged
\* fence, the extracted code is the text between the opening and the
\* closing fence of the first block, without its leading and trailing
\* whitespace.
C21_UntaggedBlockIsExtracted ==
    \A c \in Callers :
        (pc[c] # "idle" /\ HasUntaggedBlock(TextOf(c))) =>
            code[c] = Trimmed(SubSeq(TextOf(c), FirstFence(TextOf(c)) + 1,
                                     SecondFence(TextOf(c)) - 1))

\* the call of c is at the similarity and an image goes to the encoder:
\* self.model(**inputs), called without a time limit
Encodes(c) ==
    /\ pc[c] = "score"
    /\ example[c].has_image
    /\ \/ CallsEncoder(example[c].image)
       \/ CallsEncoder(PathImage(fs[run_dir(c)].image))

\* the steps that are sure to happen: the statements of metric run on, and
\* subprocess.run returns when the child exits or timeout_s is over; the
\* encoder call returns when the model does
Fairness ==
    \A c \in Callers :
        /\ WF_vars(\E ok \in BOOLEAN : MakeRunDir(c, ok))
        /\ WF_vars(\E o \in {"ok", "raw_fails", "generate_fails"} : WriteScripts(c, o))
        /\ WF_vars(\E ok \in BOOLEAN : Spawn(c, ok))
        /\ WF_vars(TimeoutExpired(c) \/ \E r \in ExecResults : ChildExits(c, r))
        /\ WF_vars(CheckResult(c))
        /\ WF_vars(~Encodes(c) /\ \E ok \in BOOLEAN : Score(c, ok))

SpecLive == Init /\ [][Next]_vars /\ Fairness

\* C22: every call of metric that has started returns or raises.
C22_EveryCallReturns ==
    \A c \in Callers : (pc[c] # "idle") ~> Done(c)

\* the part of it that is about the process: a call that waits for its
\* child goes on
C22_ExecutionIsBounded ==
    \A c \in Callers : (pc[c] = "running") ~> (pc[c] # "running")

\* one image of the pair cannot be decoded: _get_embedding yields None
Undecodable(image1, image2) ==
    _get_embedding(image1) = NoEmb \/ _get_embedding(image2) = NoEmb

\* C23: when the reference image or image.png cannot be decoded, the call
\* returns score 0 and its feedback says that an image could not be
\* processed.
C23_UndecodableScoresZero ==
    \A c \in Callers :
        (HasScored(c) /\ Undecodable(ScoredPair(c)[1], ScoredPair(c)[2])) =>
            /\ result[c].score = 0
            /\ Has(result[c].feedback, "msg", "Failed to process one or both images.")

\* C24: after a call that reached the write stage, generate_raw.py and
\* generate.py of its run directory both hold the extracted code of that
\* call, character by character, and nothing an earlier call wrote.
C24_ScriptsAreVerbatimCopies ==
    \A c \in Callers :
        (Done(c) /\ Went(c, "write")) =>
            /\ fs[run_dir(c)].raw = fs[run_dir(c)].gen
            /\ fs[run_dir(c)].raw = TextFile(code[c])

\* the part of it that is about the two files being equal
C24_ScriptsAreEqual ==
    \A c \in Callers :
        (Done(c) /\ Went(c, "write")) => fs[run_dir(c)].raw = fs[run_dir(c)].gen

\* ------------------------------------------------- the identifier keys

\* what a key of an example may hold: nothing, the empty string, a string
\* or an integer; pid holds 7, id holds 8 and example_id holds 9
KeyValues(n) == {NoneV, PyS(""), PyS(Digits[n + 1]), PyI(n)}

PidExamples ==
    {Example(p, i, e, TRUE, RefImage) :
        p \in KeyValues(7), i \in KeyValues(8), e \in KeyValues(9)}

\* the first call of metric, on every example of PidExamples
NextPid ==
    \/ \E ex \in PidExamples, pred \in ConcPredictions :
           /\ pc["c1"] = "idle"
           /\ Call("c1", ex, pred)
    \/ \E ok \in BOOLEAN : MakeRunDir("c1", ok)
    \/ WriteScripts("c1", "raw_fails")

SpecPid == InitExtract /\ [][NextPid]_vars

\* the string form of the value of a key
Shown(v) ==
    IF v \in {PyI(7), PyS("7")} THEN "7"
    ELSE IF v \in {PyI(8), PyS("8")} THEN "8" ELSE "9"

Unset(v) == v \in {NoneV, PyS("")}

\* the run id of an example: pid before id before example_id
ExpectedPid(keys) ==
    IF ~Unset(keys["pid"]) THEN Shown(keys["pid"])
    ELSE IF ~Unset(keys["id"]) THEN Shown(keys["id"])
    ELSE IF ~Unset(keys["example_id"]) THEN Shown(keys["example_id"])
    ELSE "unknown"

\* C25: the run id of a call is the string form of the first of pid, id
\* and example_id of its example that is neither None nor empty, and
\* "unknown" for every example that sets none of them; the directory the
\* call creates is the one of that run id.
C25_RunIdIsFirstKeySet ==
    \A c \in Callers :
        Went(c, "mkdir") =>
            /\ pid[c] = ExpectedPid(example[c].keys)
            /\ run_dir(c) = ExpectedPid(example[c].keys)
            /\ (\A k \in DOMAIN example[c].keys : Unset(example[c].keys[k])) =>
                   run_dir(c) = "unknown"
            /\ pc[c] # "raised" => fs[ExpectedPid(example[c].keys)].exists

C25_Witness ==
    \E c \in Callers :
        /\ example[c].keys = Example(PyS(""), PyI(8), PyS("9"), TRUE, RefImage).keys
        /\ pid[c] = "8"
        /\ fs["8"].exists
        /\ ~fs["9"].exists

\* ------------------------------------------- Orchestrator.run

\* a file of the run directory when a new run starts
OrchAged(f) == IF f = "new" THEN "old" ELSE f

OrchStep(name, outcome) == Append(orch.steps, <<name, outcome>>)

\* run is called: run_dir.mkdir(parents=True, exist_ok=True), outside any
\* try; python_ok says whether "python" is an executable of PATH
OrchRun(python_ok, mkdir_ok) ==
    /\ orch.pc \in {"idle", "returned", "raised"}
    /\ orch' = [pc |-> IF mkdir_ok THEN "codegen" ELSE "raised",
                steps |-> <<<<"mkdir", IF mkdir_ok THEN "ok" ELSE "oserror">>>>,
                python |-> python_ok,
                generate |-> OrchAged(orch.generate),
                prompt |-> OrchAged(orch.prompt),
                metadata |-> OrchAged(orch.metadata)]
    /\ UNCHANGED <<metric_vars, ds, cli>>

\* step 1, subprocess.run(code_cmd, check=True): a non-zero exit is caught
\* and run returns; a spawn that fails leaves run as an OSError
CodeGen(exit_ok) ==
    /\ orch.pc = "codegen"
    /\ orch' = IF ~orch.python
               THEN [orch EXCEPT !.pc = "raised", !.steps = OrchStep("codegen", "oserror")]
               ELSE IF exit_ok
                    THEN [orch EXCEPT !.pc = "format", !.generate = "new",
                                      !.steps = OrchStep("codegen", "ok")]
                    ELSE [orch EXCEPT !.pc = "returned",
                                      !.steps = OrchStep("codegen", "nonzero")]
    /\ UNCHANGED <<metric_vars, ds, cli>>

FormatOutcomes == {"ok", "no_template", "bad_template", "write_fails"}

\* FormatPrompt that ends the run when the prompt cannot be formatted
FormatPromptStops(outcome) ==
    /\ orch.pc = "format"
    /\ outcome \in FormatOutcomes
    /\ orch' = [orch EXCEPT !.pc = IF outcome = "ok" THEN "agent" ELSE "returned",
                            !.prompt = IF outcome = "ok" THEN "new" ELSE @,
                            !.steps = OrchStep("format", outcome)]
    /\ UNCHANGED <<metric_vars, ds, cli>>

\* step 2, the template is read, formatted and written to prompt.md under
\* one try whose except passes
FormatPrompt(outcome) ==
    /\ orch.pc = "format"
    /\ outcome \in FormatOutcomes
    /\ orch' = [orch EXCEPT !.pc = "agent",
                            !.prompt = IF outcome = "ok" THEN "new" ELSE @,
                            !.steps = OrchStep("format", outcome)]
    /\ UNCHANGED <<metric_vars, ds, cli>>

\* subprocess.run(cli_cmd, check=True): a non-zero exit is caught and run
\* goes on; python was found by step 1
RunAgent(exit_ok) ==
    /\ orch.pc = "agent"
    /\ orch' = [orch EXCEPT !.pc = "metadata",
                            !.steps = OrchStep("agent", IF exit_ok THEN "ok" ELSE "nonzero")]
    /\ UNCHANGED <<metric_vars, ds, cli>>

\* step 3, metadata.json is written, outside any try
SaveMetadata(ok) ==
    /\ orch.pc = "metadata"
    /\ orch' = [orch EXCEPT !.pc = IF ok THEN "returned" ELSE "raised",
                            !.metadata = IF ok THEN "new" ELSE @,
                            !.steps = OrchStep("metadata", IF ok THEN "ok" ELSE "oserror")]
    /\ UNCHANGED <<metric_vars, ds, cli>>

NextOrch ==
    \/ \E python_ok \in BOOLEAN, mkdir_ok \in BOOLEAN : OrchRun(python_ok, mkdir_ok)
    \/ \E exit_ok \in BOOLEAN : CodeGen(exit_ok)
    \/ \E outcome \in FormatOutcomes : FormatPrompt(outcome)
    \/ \E exit_ok \in BOOLEAN : RunAgent(exit_ok)
    \/ \E ok \in BOOLEAN : SaveMetadata(ok)

InitOrch == InitOf({"c1"}, {DefaultThreshold}, {NoDeadline})

SpecOrch == InitOrch /\ [][NextOrch]_vars

OrchOrder == <<"mkdir", "codegen", "format", "agent", "metadata">>

OrchNames == [i \in DOMAIN orch.steps |-> orch.steps[i][1]]

OrchDid(name) == \E i \in DOMAIN orch.steps : orch.steps[i][1] = name

OrchFailed(name) ==
    \E i \in DOMAIN orch.steps : orch.steps[i][1] = name /\ orch.steps[i][2] # "ok"

OrchDone == orch.pc \in {"returned", "raised"}

\* C26: the steps of a run are a prefix of code generation, prompt
\* formatting, CLI agent, metadata. After a failed code generation the run
\* has ended without a later step and has written neither prompt.md nor
\* metadata.json. After a code generation that succeeded, the run does not
\* end before the CLI agent was run and the metadata step taken, whatever
\* the outcome of the formatting and of the agent; a run that returns has
\* written metadata.json.
C26_OrchestratorOrder ==
    /\ IsPrefix(OrchNames, OrchOrder)
    /\ OrchFailed("codegen") =>
           /\ OrchDone
           /\ OrchNames = <<"mkdir", "codegen">>
           /\ orch.prompt # "new" /\ orch.metadata # "new"
    /\ (OrchDone /\ OrchDid("codegen") /\ ~OrchFailed("codegen")) =>
           /\ OrchNames = OrchOrder
           /\ orch.pc = "returned" => orch.metadata = "new"
    /\ (OrchDid("format") /\ orch.pc # "format") => orch.pc \in {"agent", "metadata", "returned", "raised"}
    /\ (OrchFailed("format") /\ OrchDone) => OrchDid("agent")

C26_Witness ==
    /\ orch.pc = "returned"
    /\ OrchFailed("format")
    /\ OrchFailed("agent")
    /\ orch.metadata = "new"
    /\ orch.prompt = "old"

\* ------------------------------------------- BuildGEPADataset.build

MaxRows == 3
MaxQuota == 2

\* a row of testmini.parquet: its metadata is a dict (or the JSON text of
\* one) with a context, which may be missing (None), or it is no dict
Row(dict, context) == [dict |-> dict, context |-> context]

Rows ==
    {Row(TRUE, "chart"), Row(TRUE, "None"), Row(TRUE, "natural image"),
     Row(FALSE, "None")}

Tables == UNION {[1 .. n -> Rows] : n \in 0 .. MaxRows}

\* context_to_exclude
Excluded == {"natural image", "medical image", "synthetic scene"}

\* the quotas max_train_per_context and max_val_per_context
Quotas == 0 .. MaxQuota

\* the rows of the table that are kept, by their position
Kept(table) ==
    {i \in DOMAIN table : table[i].dict /\ table[i].context \notin Excluded}

\* the positions of s in increasing order
RECURSIVE Sorted(_)
Sorted(s) ==
    IF s = {} THEN <<>>
    ELSE LET m == CHOOSE i \in s : \A j \in s : i <= j
         IN <<m>> \o Sorted(s \ {m})

\* context_groups: the contexts in the order of their first row, each with
\* its rows in the order of the table
RECURSIVE GroupsOf(_, _)
GroupsOf(table, rows) ==
    IF rows = <<>> THEN <<>>
    ELSE LET c == table[Head(rows)].context
             mine == SelectSeq(rows, LAMBDA i : table[i].context = c)
             rest == SelectSeq(rows, LAMBDA i : table[i].context # c)
         IN <<mine>> \o GroupsOf(table, rest)

\* random.shuffle: the orders it can leave a list of n elements in
Perms(n) == {f \in [1 .. n -> 1 .. n] : \A i, j \in 1 .. n : f[i] = f[j] => i = j}
Shuffled(s, f) == [i \in 1 .. Len(s) |-> s[f[i]]]

\* examples[:n] and examples[n:], for n >= 0
Take(s, n) == SubSeq(s, 1, IF n < Len(s) THEN n ELSE Len(s))
Drop(s, n) == SubSeq(s, (IF n < Len(s) THEN n ELSE Len(s)) + 1, Len(s))

\* build is called: without testmini.parquet it returns two empty lists,
\* else it groups the rows by context
Build(table, max_train, max_val, exists) ==
    /\ ds.pc = "idle"
    /\ ds' = [ds EXCEPT !.pc = IF exists /\ Kept(table) # {} THEN "split"
                               ELSE IF exists THEN "shuffle" ELSE "done",
                        !.table = table, !.max_train = max_train, !.max_val = max_val,
                        !.groups = IF exists THEN GroupsOf(table, Sorted(Kept(table)))
                                   ELSE <<>>]
    /\ UNCHANGED <<metric_vars, orch, cli>>

\* SplitContext that takes the validation examples from the whole group
SplitContextOverlap ==
    /\ ds.pc = "split"
    /\ \E f \in Perms(Len(ds.groups[ds.next])) :
       LET examples == Shuffled(ds.groups[ds.next], f)
       IN ds' = [ds EXCEPT !.train = @ \o Take(examples, ds.max_train),
                           !.val = @ \o Take(examples, ds.max_val),
                           !.next = @ + 1,
                           !.pc = IF ds.next = Len(ds.groups) THEN "shuffle" ELSE "split"]
    /\ UNCHANGED <<metric_vars, orch, cli>>

\* one turn of the loop over context_groups: shuffle, the first
\* max_train_per_context examples to train_set, the next
\* max_val_per_context to val_set
SplitContext ==
    /\ ds.pc = "split"
    /\ \E f \in Perms(Len(ds.groups[ds.next])) :
       LET examples == Shuffled(ds.groups[ds.next], f)
           remaining == Drop(examples, ds.max_train)
       IN ds' = [ds EXCEPT !.train = @ \o Take(examples, ds.max_train),
                           !.val = @ \o Take(remaining, ds.max_val),
                           !.next = @ + 1,
                           !.pc = IF ds.next = Len(ds.groups) THEN "shuffle" ELSE "split"]
    /\ UNCHANGED <<metric_vars, orch, cli>>

\* the two sets are shuffled, saved when save_dataset is set, and returned
ShuffleSets(save_dataset) ==
    /\ ds.pc = "shuffle"
    /\ \E f \in Perms(Len(ds.train)), g \in Perms(Len(ds.val)) :
           ds' = [ds EXCEPT !.train = Shuffled(@, f), !.val = Shuffled(@, g),
                            !.saved = save_dataset, !.pc = "done"]
    /\ UNCHANGED <<metric_vars, orch, cli>>

NextBuild ==
    \/ \E table \in Tables, max_train \in Quotas, max_val \in Quotas, exists \in BOOLEAN :
           Build(table, max_train, max_val, exists)
    \/ SplitContext
    \/ \E save \in BOOLEAN : ShuffleSets(save)

SpecBuild == InitOrch /\ [][NextBuild]_vars

\* the rows of a set, and those of one context
Members(set) == {set[i] : i \in DOMAIN set}
OfContext(set, c) == {i \in Members(set) : ds.table[i].context = c}

Contexts == {r.context : r \in Rows}

\* C27: the sets build returns share no example, hold every example once,
\* hold at most max_train_per_context training and max_val_per_context
\* validation examples of a context and none of an excluded context, and
\* hold validation examples of a context only when its training quota is
\* filled.
C27_SplitIsDisjointAndCapped ==
    ds.pc = "done" =>
        /\ Members(ds.train) \cap Members(ds.val) = {}
        /\ Cardinality(Members(ds.train)) = Len(ds.train)
        /\ Cardinality(Members(ds.val)) = Len(ds.val)
        /\ Members(ds.train) \cup Members(ds.val) \subseteq DOMAIN ds.table
        /\ \A c \in Contexts :
               /\ Cardinality(OfContext(ds.train, c)) <= ds.max_train
               /\ Cardinality(OfContext(ds.val, c)) <= ds.max_val
               /\ c \in Excluded => (OfContext(ds.train, c) = {} /\ OfContext(ds.val, c) = {})
               /\ OfContext(ds.val, c) # {} =>
                      Cardinality(OfContext(ds.train, c)) = ds.max_train

C27_Witness ==
    /\ ds.pc = "done"
    /\ \E i, j, k \in DOMAIN ds.table :
           /\ ds.table[i].context = ds.table[j].context
           /\ i \in Members(ds.train)
           /\ j \in Members(ds.val)
           /\ ds.table[k].context \in Excluded

\* ------------------------------------------- cliagent.py as a script

\* PROVIDERS: provider -> (mode, base command)
PROVIDERS ==
    [gemini |-> <<"arg", <<"gemini", "-y", "-p">>>>,
     codex |-> <<"arg", <<"codex", "exec", "--full-auto", "-s", "workspace-write">>>>,
     qwen |-> <<"stdin", <<"qwen", "-y", "-p">>>>]

ProviderNames == {"gemini", "codex", "qwen", "claude"}

\* the value of --prompt: the name of the prompt file, a text of one token
PromptArg == <<"runs/7/prompt.md">>

\* what the prompt file may hold
PromptFiles ==
    {NoFile, TextFile(<<"a">>), TextFile(<<"sp", "a", "b", "nl">>),
     TextFile(<<"runs/7/prompt.md">>)}

\* _build_command: <<cmd, mode>>; provider_cmd is None when cliagent.py is
\* run as a script
_build_command(provider, model_name, on_path) ==
    IF provider \notin DOMAIN PROVIDERS THEN <<<<>>, "error">>
    ELSE LET mode == PROVIDERS[provider][1]
             base_cmd == PROVIDERS[provider][2]
             cmd == IF model_name # "" /\ provider = "gemini"
                    THEN <<Head(base_cmd), "-m", model_name>> \o Tail(base_cmd)
                    ELSE base_cmd
         IN IF ~on_path THEN <<<<>>, "error">>
            ELSE <<cmd, mode>>

\* the script up to agent.forward(): the prompt file is read and stripped
\* (a missing file ends the script with exit code 1), and the agent is
\* made with prompt=args.prompt
CliMain(file, provider, model, on_path) ==
    /\ cli.pc \in {"idle", "exited"}
    /\ cli' = IF ~file.present
              THEN [CliIdle EXCEPT !.pc = "exited", !.file = file, !.provider = provider,
                                   !.model = model, !.on_path = on_path, !.exit_code = 1]
              ELSE [CliIdle EXCEPT !.pc = "forward", !.file = file, !.provider = provider,
                                   !.model = model, !.on_path = on_path,
                                   !.read = Strip(file.text),
                                   !.prompt = PromptArg]
    /\ UNCHANGED <<metric_vars, orch, ds>>

\* forward: exit code 2 when no command could be built, else the provider
\* is started with the prompt as its last argument or as its input
Forward ==
    /\ cli.pc = "forward"
    /\ LET built == _build_command(cli.provider, cli.model, cli.on_path)
           cmd == built[1]
           mode == built[2]
       IN cli' = IF mode = "error"
                 THEN [cli EXCEPT !.pc = "exited", !.exit_code = 2]
                 ELSE IF mode = "stdin"
                      THEN [cli EXCEPT !.pc = "running", !.spawned = TRUE,
                                       !.argv = cmd, !.stdin = cli.prompt]
                      ELSE [cli EXCEPT !.pc = "running", !.spawned = TRUE,
                                       !.argv = Append(cmd, cli.prompt)]
    /\ UNCHANGED <<metric_vars, orch, ds>>

\* the provider exits: forward returns its exit code, sys.exit(exit_code)
ProviderExits(returncode) ==
    /\ cli.pc = "running"
    /\ cli' = [cli EXCEPT !.pc = "exited", !.exit_code = returncode]
    /\ UNCHANGED <<metric_vars, orch, ds>>

NextCli ==
    \/ \E file \in PromptFiles, provider \in ProviderNames, model \in {"", "flash"},
          on_path \in BOOLEAN : CliMain(file, provider, model, on_path)
    \/ Forward
    \/ \E returncode \in {0, 1, 2} : ProviderExits(returncode)

SpecCli == InitOrch /\ [][NextCli]_vars

\* the prompt the provider got: its input, or its last argument
Delivered ==
    IF cli.stdin # NoText THEN cli.stdin ELSE cli.argv[Len(cli.argv)]

\* C28: the prompt a provider is started with is the content of the file
\* that --prompt names.
C28_PromptIsFileContent ==
    cli.spawned =>
        Delivered \in {cli.file.text, Strip(cli.file.text)}

\* the other part of it: for an unknown provider or an executable that is
\* not on PATH the exit code is 2 and no process was started
C28_NoCommandExitsWithTwo ==
    (cli.pc = "exited" /\ cli.file.present
        /\ (cli.provider \notin DOMAIN PROVIDERS \/ ~cli.on_path)) =>
            (cli.exit_code = 2 /\ ~cli.spawned)

====
